---- MODULE Spec2Model ----
(***************************************************************************)
(* Model of main/system_info.cc: the UDID derivation and persistence      *)
(* protocol (ReadUdidFromNvs, WriteUdidToNvs, HasWifiConfigInNvs,          *)
(* SystemInfo::InitializeUdid, SystemInfo::GetMacAddress) and the CPU      *)
(* usage sampler (SystemInfo::PrintTaskCpuUsage).                          *)
(*                                                                         *)
(* Strings are sequences of one-character strings; NUL is the C string     *)
(* terminator.  An NVS string item is kept as the bytes nvs_get_str        *)
(* delivers, terminator included, so that the length nvs_get_str reports   *)
(* is Len(raw).                                                            *)
(***************************************************************************)
EXTENDS Integers, Sequences, FiniteSets, TLC

VARIABLES
    hwMac,      \* the station hardware address, 6 bytes (esp_read_mac)
    nvs,        \* the persistent store: namespaces "device" and "wifi"
    callers,    \* the tasks that call into the UDID manager
    pc,         \* pc[t]: position of task t inside GetMacAddress / InitializeUdid
    frame,      \* frame[t]: the locals of the call task t is executing
    obs,        \* obs[t]: what the call in progress has done so far
    persisted,  \* some call wrote a UDID and its commit succeeded
    last,       \* the call that returned in the step just taken, if one did
    prev,       \* the call before it, when nothing happened in between
    cores,      \* CONFIG_FREERTOS_NUMBER_OF_CORES
    tasks,      \* the scheduler's task table: handle -> run-time counter
    runTime,    \* the global run-time counter
    envSteps,   \* scheduler events so far
    spc,        \* position of the caller inside PrintTaskCpuUsage
    loc,        \* the locals of PrintTaskCpuUsage
    heap,       \* state of the two snapshot buffers
    remaining,  \* ticks left until the delayed caller is woken
    out,        \* the lines printed by the call in progress
    cobs,       \* what the sampler call in progress has done so far
    clast       \* the sampler call that returned most recently

uvars == <<hwMac, nvs, callers, pc, frame, obs, persisted, last, prev>>

cvars == <<cores, tasks, runTime, envSteps, spc, loc, heap, remaining, out,
           cobs, clast>>

vars == <<uvars, cvars>>

----------------------------------------------------------------------------
(* Strings *)

NUL == "NUL"

HexDigits == <<"0", "1", "2", "3", "4", "5", "6", "7",
               "8", "9", "a", "b", "c", "d", "e", "f">>

\* "%x" in place of "%02x": no zero padding
HexPair_NoPad(b) ==
    IF b < 16
    THEN <<HexDigits[b + 1]>>
    ELSE <<HexDigits[(b \div 16) + 1], HexDigits[(b % 16) + 1]>>

\* printf("%02x") of one uint8_t
HexPair(b) == <<HexDigits[(b \div 16) + 1], HexDigits[(b % 16) + 1]>>

\* sizeof(mac_str)
MacStrSize == 18

\* snprintf writes at most sizeof(mac_str) - 1 characters and a terminator;
\* std::string(mac_str) takes the characters before the terminator.
FormatMac(mac) ==
    LET full == HexPair(mac[1]) \o <<":">> \o HexPair(mac[2]) \o <<":">> \o
                HexPair(mac[3]) \o <<":">> \o HexPair(mac[4]) \o <<":">> \o
                HexPair(mac[5]) \o <<":">> \o HexPair(mac[6])
        n == IF Len(full) < MacStrSize - 1 THEN Len(full) ELSE MacStrSize - 1
    IN SubSeq(full, 1, n)

\* the stripping loop left out
StripNul_Kept(s) == s

\* while (!value.empty() && value.back() == '\0') value.pop_back();
RECURSIVE StripNul(_)
StripNul(s) ==
    IF s # <<>> /\ s[Len(s)] = NUL
    THEN StripNul(SubSeq(s, 1, Len(s) - 1))
    ELSE s

\* udid.c_str() as nvs_set_str sees it: the characters before the first NUL
RECURSIVE CStr(_)
CStr(s) ==
    IF s = <<>> \/ s[1] = NUL THEN <<>> ELSE <<s[1]>> \o CStr(Tail(s))

----------------------------------------------------------------------------
(* The persistent store *)

NoItem == [present |-> FALSE, raw |-> <<>>]

\* the item nvs_set_str(handle, key, s) stores: the string and its terminator
StrItem(s) == [present |-> TRUE, raw |-> s \o <<NUL>>]

kMaxWifiSsidCount == 10

Slots == 0 .. (kMaxWifiSsidCount - 1)

ReadFaults == {"ok", "open", "len", "str"}

\* a read of a key that is never written
ReadUdidFromNvs_WrongKey(n, fault, old) == [ok |-> FALSE, udid |-> old]

\* ReadUdidFromNvs: [ok, udid]; udid is left as it was when the read fails
ReadUdidFromNvs(n, fault, old) ==
    IF fault = "open" \/ ~n.devNs
    THEN [ok |-> FALSE, udid |-> old]
    ELSE IF fault = "len" \/ ~n.udid.present \/ Len(n.udid.raw) = 0
    THEN [ok |-> FALSE, udid |-> old]
    ELSE IF fault = "str"
    THEN [ok |-> FALSE, udid |-> old]
    ELSE [ok |-> TRUE, udid |-> StripNul(n.udid.raw)]

WriteFaults == {"ok", "open", "set", "commit_lost", "commit_kept"}

\* a write that leaves a value already stored as it is
WriteUdidToNvs_KeepFirst(n, udid, fault) ==
    IF n.udid.present
    THEN n
    ELSE [n EXCEPT !.devNs = TRUE, !.udid = [present |-> TRUE,
                                             raw |-> udid \o <<NUL>>],
                   !.flash = [present |-> TRUE, raw |-> udid \o <<NUL>>]]

\* WriteUdidToNvs: the store after the call.  nvs_set_str makes the value
\* visible to readers; nvs_commit makes what is visible durable.  A commit
\* that fails leaves the durable copy either as it was or updated.
WriteUdidToNvs(n, udid, fault) ==
    IF fault = "open"
    THEN n
    ELSE IF fault = "set"
    THEN [n EXCEPT !.devNs = TRUE]
    ELSE IF fault = "commit_lost"
    THEN [n EXCEPT !.devNs = TRUE, !.udid = StrItem(CStr(udid))]
    ELSE [n EXCEPT !.devNs = TRUE, !.udid = StrItem(CStr(udid)),
                   !.flash = StrItem(CStr(udid))]

\* a check that finds no credential whatever the slots hold
HasWifiConfigInNvs_Never(n, openFault, slotFaults) == FALSE

\* HasWifiConfigInNvs: openFault, and the slots whose nvs_get_str fails
HasWifiConfigInNvs(n, openFault, slotFaults) ==
    IF openFault \/ ~n.wifiNs
    THEN FALSE
    ELSE \E i \in Slots :
            /\ i \notin slotFaults
            /\ n.wifi[i].present
            /\ Len(n.wifi[i].raw) > 0

\* GetStaMac
GetStaMac == hwMac

----------------------------------------------------------------------------
(* Inputs and initial states *)

AllTasks == {1, 2}

\* hardware addresses: AA:BB:CC:DD:EE:FF and 00:1A:2B:03:4D:05
MacSet == {<<170, 187, 204, 221, 238, 255>>, <<0, 26, 43, 3, 77, 5>>}

\* values of esp_random(), a uint32_t kept as its two 16-bit halves:
\* 0x00CCBBAA, 0xFF563412
RandSet == {[hi |-> 204, lo |-> 48042], [hi |-> 65366, lo |-> 13330]}

\* what the "device" namespace may hold under key "udid" before the first call:
\* nothing, an empty string, null padding only, an identifier written earlier
InitialUdidItems ==
    {NoItem, StrItem(<<>>), StrItem(<<NUL>>), StrItem(<<"i", "d", "7">>)}

NoWifi == [i \in Slots |-> NoItem]

OneSlot(i, item) == [NoWifi EXCEPT ![i] = item]

\* contents of the "wifi" namespace: no namespace, no slot, one SSID in the
\* first (unindexed) or the last slot, one slot holding an empty string
WifiConfigs ==
    {[ns |-> FALSE, slots |-> NoWifi],
     [ns |-> TRUE, slots |-> NoWifi],
     [ns |-> TRUE, slots |-> OneSlot(0, StrItem(<<"n", "e", "t">>))],
     [ns |-> TRUE, slots |-> OneSlot(kMaxWifiSsidCount - 1, StrItem(<<"n", "e", "t">>))],
     [ns |-> TRUE, slots |-> OneSlot(3, StrItem(<<>>))]}

\* the slots whose read may fail in one HasWifiConfigInNvs call
SlotFaultSets == {{}, Slots} \cup {{i} : i \in Slots}

NoFrame == [op |-> "none", udid |-> <<>>, has_udid |-> FALSE,
            mac |-> <<>>, mac_str |-> <<>>]

\* what a call has done so far
NoObs == [preUdid |-> NoItem,       \* the visible UDID item when the call began
          provisioned |-> FALSE,    \* a credential slot held a non-empty SSID then
          read1ok |-> FALSE,        \* the read at line 153 met no store failure
          faults |-> 0,             \* 1 when some store operation failed
          write |-> "none",         \* outcome of WriteUdidToNvs, if called
          wrote |-> <<>>,           \* the string handed to WriteUdidToNvs
          prov |-> "none",          \* branch taken: "mac" or "random"
          reread |-> "none",        \* outcome of the read at line 157
          macReads |-> 0,           \* GetStaMac calls
          draws |-> <<>>,           \* esp_random() values drawn
          touched |-> FALSE]        \* a step of the call changed the store

NoCall == [op |-> "none", ret |-> <<>>, obs |-> NoObs]

\* what is kept of a GetMacAddress call that met no store failure, for the
\* call that follows it
NoPrev == [op |-> "none", ret |-> <<>>, write |-> "none", stored |-> FALSE]

Digest(c) ==
    IF c.op = "get" /\ c.obs.faults = 0
    THEN [op |-> c.op, ret |-> c.ret, write |-> c.obs.write,
          stored |-> c.obs.preUdid.present]
    ELSE NoPrev

\* the provisioning marker: some credential slot holds a non-empty string
Provisioned(n) ==
    /\ n.wifiNs
    /\ \E i \in Slots : n.wifi[i].present /\ CStr(n.wifi[i].raw) # <<>>

StartObs == [NoObs EXCEPT !.preUdid = nvs.udid,
                          !.provisioned = Provisioned(nvs)]

Bump(o, fault) == IF fault = "ok" THEN o ELSE [o EXCEPT !.faults = 1]

UdidInit(cs) ==
    /\ hwMac \in MacSet
    /\ \E item \in InitialUdidItems, w \in WifiConfigs, ns \in BOOLEAN :
          /\ item.present => ns
          /\ nvs = [devNs |-> ns, udid |-> item, flash |-> item,
                    wifiNs |-> w.ns, wifi |-> w.slots]
    /\ callers = cs
    /\ pc = [t \in AllTasks |-> "idle"]
    /\ frame = [t \in AllTasks |-> NoFrame]
    /\ obs = [t \in AllTasks |-> NoObs]
    /\ persisted = FALSE
    /\ last = NoCall
    /\ prev = NoPrev

CpuIdle ==
    /\ cores = 1
    /\ tasks = <<>>
    /\ runTime = [hi |-> 0, lo |-> 0]
    /\ envSteps = 0
    /\ spc = "idle"
    /\ loc = <<>>
    /\ heap = <<>>
    /\ remaining = 0
    /\ out = <<>>
    /\ cobs = <<>>
    /\ clast = <<>>

Init == UdidInit({1}) /\ CpuIdle

----------------------------------------------------------------------------
(* SystemInfo::GetMacAddress and SystemInfo::InitializeUdid, step by step *)

Carry == IF last.op = "none" THEN prev ELSE Digest(last)

Seen(o, n) == [o EXCEPT !.touched = @ \/ (n # nvs)]

\* the call of task t returns value ret, leaving the store as n
Return(t, op, ret, o, n) ==
    /\ nvs' = n
    /\ pc' = [pc EXCEPT ![t] = "idle"]
    /\ frame' = [frame EXCEPT ![t] = NoFrame]
    /\ obs' = [obs EXCEPT ![t] = NoObs]
    /\ last' = [op |-> op, ret |-> ret, obs |-> Seen(o, n)]
    /\ prev' = Carry

\* task t moves on inside its call, leaving the store as n
Goto(t, label, f, o, n) ==
    /\ nvs' = n
    /\ pc' = [pc EXCEPT ![t] = label]
    /\ frame' = [frame EXCEPT ![t] = f]
    /\ obs' = [obs EXCEPT ![t] = Seen(o, n)]
    /\ last' = NoCall
    /\ prev' = Carry

\* InitializeUdid returns: to its caller GetMacAddress, or to the task
InitReturn(t, f, o, n) ==
    IF f.op = "get"
    THEN Goto(t, "get_reread", f, o, n)
    ELSE Return(t, "init", <<>>, o, n)

\* GetMacAddress, lines 152-156: the first read
GetMacAddress(t) ==
    /\ t \in callers
    /\ pc[t] = "idle"
    /\ \E fault \in ReadFaults :
          LET rd == ReadUdidFromNvs(nvs, fault, <<>>)
              o == [Bump(StartObs, fault) EXCEPT !.read1ok = (fault = "ok")]
          IN IF rd.ok
             THEN Return(t, "get", rd.udid, o, nvs)
             ELSE Goto(t, "init_read", [NoFrame EXCEPT !.op = "get"], o, nvs)
    /\ UNCHANGED <<hwMac, callers, persisted, cvars>>

\* InitializeUdid, lines 114-124
InitBody(t, f0, o0, fault) ==
    LET rd == ReadUdidFromNvs(nvs, fault, <<>>)
        f == [f0 EXCEPT !.udid = rd.udid, !.has_udid = rd.ok,
                        !.mac = GetStaMac, !.mac_str = FormatMac(GetStaMac)]
        o == [Bump(o0, fault) EXCEPT !.macReads = @ + 1]
    IN IF f.has_udid
       THEN InitReturn(t, f, o, nvs)
       ELSE Goto(t, "init_wifi", f, o, nvs)

\* InitializeUdid called by a task directly
InitializeUdid(t) ==
    /\ t \in callers
    /\ pc[t] = "idle"
    /\ \E fault \in ReadFaults :
          InitBody(t, [NoFrame EXCEPT !.op = "init"], StartObs, fault)
    /\ UNCHANGED <<hwMac, callers, persisted, cvars>>

\* InitializeUdid called from GetMacAddress, line 156
InitRead(t) ==
    /\ pc[t] = "init_read"
    /\ \E fault \in ReadFaults : InitBody(t, frame[t], obs[t], fault)
    /\ UNCHANGED <<hwMac, callers, persisted, cvars>>

\* line 126
InitCheckWifi(t) ==
    /\ pc[t] = "init_wifi"
    /\ \E openFault \in BOOLEAN, slotFaults \in SlotFaultSets :
          LET o == IF openFault \/ slotFaults # {}
                   THEN [obs[t] EXCEPT !.faults = 1] ELSE obs[t]
          IN IF HasWifiConfigInNvs(nvs, openFault, slotFaults)
             THEN Goto(t, "init_write_mac", frame[t], [o EXCEPT !.prov = "mac"], nvs)
             ELSE Goto(t, "init_random", frame[t], [o EXCEPT !.prov = "random"], nvs)
    /\ UNCHANGED <<hwMac, callers, persisted, cvars>>

\* the store and the observations after WriteUdidToNvs(udid)
DoWrite(t, udid, fault, next) ==
    /\ persisted' = (persisted \/ fault = "ok")
    /\ Goto(t, next, frame[t],
            [Bump(obs[t], fault) EXCEPT !.write = fault, !.wrote = udid],
            WriteUdidToNvs(nvs, udid, fault))

\* line 127
InitWriteMac(t) ==
    /\ pc[t] = "init_write_mac"
    /\ \E fault \in WriteFaults :
          DoWrite(t, frame[t].mac_str, fault, "init_reread_mac")
    /\ UNCHANGED <<hwMac, callers, cvars>>

\* lines 128-131
InitRereadMac(t) ==
    /\ pc[t] = "init_reread_mac"
    /\ \E fault \in ReadFaults :
          LET rd == ReadUdidFromNvs(nvs, fault, frame[t].udid)
          IN InitReturn(t, [frame[t] EXCEPT !.udid = rd.udid],
                        Bump(obs[t], fault), nvs)
    /\ UNCHANGED <<hwMac, callers, persisted, cvars>>

\* lines 135-142: mac[0..2] become the three low-order bytes of r
RandomizeMac(mac, r) ==
    [mac EXCEPT ![1] = r.lo % 256,
                ![2] = (r.lo \div 256) % 256,
                ![3] = r.hi % 256]

InitRandom(t) ==
    /\ pc[t] = "init_random"
    /\ \E r \in RandSet :
          Goto(t, "init_write_rand",
               [frame[t] EXCEPT !.mac = RandomizeMac(frame[t].mac, r)],
               [obs[t] EXCEPT !.draws = Append(@, r)], nvs)
    /\ UNCHANGED <<hwMac, callers, persisted, cvars>>

\* line 143
InitWriteRand(t) ==
    /\ pc[t] = "init_write_rand"
    /\ \E fault \in WriteFaults :
          DoWrite(t, FormatMac(frame[t].mac), fault, "init_reread_rand")
    /\ UNCHANGED <<hwMac, callers, cvars>>

\* lines 146-149
InitRereadRand(t) ==
    /\ pc[t] = "init_reread_rand"
    /\ \E fault \in ReadFaults :
          LET rd == ReadUdidFromNvs(nvs, fault, frame[t].udid)
          IN InitReturn(t, [frame[t] EXCEPT !.udid = rd.udid],
                        Bump(obs[t], fault), nvs)
    /\ UNCHANGED <<hwMac, callers, persisted, cvars>>

\* GetMacAddress, lines 157-162: the value returned after InitializeUdid
GetResult(rd, mac) == IF rd.ok THEN rd.udid ELSE FormatMac(mac)

GetReread(t) ==
    /\ pc[t] = "get_reread"
    /\ \E fault \in ReadFaults :
          LET rd == ReadUdidFromNvs(nvs, fault, <<>>)
              o == [Bump(obs[t], fault) EXCEPT
                       !.reread = IF rd.ok THEN "ok" ELSE "failed",
                       !.macReads = IF rd.ok THEN @ ELSE @ + 1]
          IN Return(t, "get", GetResult(rd, GetStaMac), o, nvs)
    /\ UNCHANGED <<hwMac, callers, persisted, cvars>>

(* The environment *)

\* a power cycle: pending changes are lost, every call in progress is gone
Reboot ==
    /\ nvs' = [nvs EXCEPT !.udid = nvs.flash]
    /\ pc' = [t \in AllTasks |-> "idle"]
    /\ frame' = [t \in AllTasks |-> NoFrame]
    /\ obs' = [t \in AllTasks |-> NoObs]
    /\ last' = NoCall
    /\ prev' = NoPrev
    /\ UNCHANGED <<hwMac, callers, persisted, cvars>>

\* another component rewrites the network credentials between calls
WifiChange ==
    /\ \A t \in AllTasks : pc[t] = "idle"
    /\ \E w \in WifiConfigs :
          /\ <<w.ns, w.slots>> # <<nvs.wifiNs, nvs.wifi>>
          /\ nvs' = [nvs EXCEPT !.wifiNs = w.ns, !.wifi = w.slots]
    /\ last' = NoCall
    /\ prev' = NoPrev
    /\ UNCHANGED <<hwMac, callers, pc, frame, obs, persisted, cvars>>

UdidStep(t) ==
    \/ GetMacAddress(t)
    \/ InitializeUdid(t)
    \/ InitRead(t)
    \/ InitCheckWifi(t)
    \/ InitWriteMac(t)
    \/ InitRereadMac(t)
    \/ InitRandom(t)
    \/ InitWriteRand(t)
    \/ InitRereadRand(t)
    \/ GetReread(t)

Next ==
    \/ \E t \in AllTasks : UdidStep(t)
    \/ Reboot
    \/ WifiChange

Spec == Init /\ [][Next]_vars

(* Concurrent first calls on a store that does not fail *)

\* several tasks call, the store holds no identifier yet
InitConc ==
    /\ UdidInit(AllTasks)
    /\ nvs.udid = NoItem
    /\ CpuIdle

\* no store operation of the step failed
Clean == last'.obs.faults = 0 /\ \A t \in AllTasks : obs'[t].faults = 0

NextConc ==
    \/ \E t \in AllTasks : GetMacAddress(t) /\ Clean
    \/ \E t \in AllTasks : InitializeUdid(t) /\ Clean
    \/ \E t \in AllTasks : InitRead(t) /\ Clean
    \/ \E t \in AllTasks : InitCheckWifi(t) /\ Clean
    \/ \E t \in AllTasks : InitWriteMac(t) /\ Clean
    \/ \E t \in AllTasks : InitRereadMac(t) /\ Clean
    \/ \E t \in AllTasks : InitRandom(t) /\ Clean
    \/ \E t \in AllTasks : InitWriteRand(t) /\ Clean
    \/ \E t \in AllTasks : InitRereadRand(t) /\ Clean
    \/ \E t \in AllTasks : GetReread(t) /\ Clean

SpecConc == InitConc /\ [][NextConc]_vars

----------------------------------------------------------------------------
(* 32-bit unsigned arithmetic on two 16-bit halves *)

Half == 65536

U32(hi, lo) == [hi |-> hi, lo |-> lo]

Zero32 == U32(0, 0)

\* (a + b) mod 2^32
Add32(a, b) ==
    LET l == a.lo + b.lo
    IN U32((a.hi + b.hi + (l \div Half)) % Half, l % Half)

\* (a - b) mod 2^32
Sub32(a, b) ==
    LET l == a.lo - b.lo + Half
        borrow == IF a.lo < b.lo THEN 1 ELSE 0
    IN U32((a.hi - b.hi - borrow + 2 * Half) % Half, l % Half)

\* (a * k) mod 2^32, for a small k
MulSmall32(a, k) ==
    LET l == a.lo * k
    IN U32(((a.hi % Half) * k + (l \div Half)) % Half, l % Half)

Less32(a, b) == a.hi < b.hi \/ (a.hi = b.hi /\ a.lo < b.lo)

\* 2^15: a value with hi >= Top is 2^31 or more
Top == Half \div 2

\* the integer a denotes, for a below 2^31
Int31(a) == a.hi * Half + a.lo

FromInt(n) == U32(n \div Half, n % Half)

\* 2^31 - 1
MaxInt31 == Int31(U32(Top - 1, Half - 1))

\* a / b of two uint32_t for b # 0.  Operands of 2^31 and more are split so
\* that no intermediate value leaves the range of the integers at hand:
\* with a = 2^31 + low, 2^31 - 1 = q1 * b + r1 and low = q2 * b + r2,
\* a = (q1 + q2) * b + (r1 + 1 + r2) and r1 + 1 + r2 < 2 * b.
Div32(a, b) ==
    IF Less32(a, b) THEN Zero32
    ELSE IF b.hi >= Top THEN U32(0, 1)
    ELSE IF b = U32(0, 1) THEN a
    ELSE IF a.hi < Top THEN FromInt(Int31(a) \div Int31(b))
    ELSE LET n == Int31(b)
             low == Int31(U32(a.hi - Top, a.lo))
             q1 == MaxInt31 \div n
             r1 == MaxInt31 % n
             q2 == low \div n
             r2 == low % n
             extra == IF r1 + 1 >= n - r2 THEN 1 ELSE 0
         IN FromInt(q1 + q2 + extra)

----------------------------------------------------------------------------
(* SystemInfo::PrintTaskCpuUsage and the scheduler around it *)

\* the task handles the scheduler hands out; the caller's own task is 1
MaxHandles == 3

Handles == 1 .. MaxHandles

Caller == 1

\* the longest delay a caller asks for, in ticks
MaxTicks == 2

\* scheduler events (a task runs, is created, is deleted) in one behaviour
MaxEnvSteps == 2

\* run-time counter increments of one scheduling slice: 60, and 2^31
DeltaSet == {U32(0, 60), U32(32768, 0)}

ARRAY_SIZE_OFFSET == 5

\* the null pointer of a snapshot buffer, and the null task handle
NULL == "NULL"

NullHandle == 0

NoLoc == [start_array |-> NULL, end_array |-> NULL,
          start_array_size |-> 0, end_array_size |-> 0,
          start_run_time |-> Zero32, end_run_time |-> Zero32,
          total_elapsed_time |-> Zero32,
          ret |-> "unset", xTicksToWait |-> 0]

\* what a sampler call has done so far
NoCobs == [mallocA |-> "none", captureA |-> "none",
           mallocB |-> "none", captureB |-> "none",
           runA |-> Zero32, runB |-> Zero32,  \* the counter at each capture
           log |-> <<>>,                      \* the events of the call, in order
           slept |-> 0]                       \* ticks spent blocked

NoCpuCall == [ret |-> "none", ticks |-> 0, out |-> <<>>, obs |-> NoCobs]

\* a snapshot buffer: unallocated, live (with the array it holds), or freed
NoBuffer == [state |-> "unallocated", data |-> <<>>, frees |-> 0]

FreshHeap == [A |-> NoBuffer, B |-> NoBuffer]

CpuInit ==
    /\ cores \in {1, 2}
    /\ tasks \in {[h \in {Caller} |-> Zero32],
                  [h \in {Caller, 2} |-> U32(0, 50)]}
    /\ runTime \in {U32(0, 100), U32(Half - 1, Half - 10)}
    /\ envSteps = 0
    /\ spc = "idle"
    /\ loc = NoLoc
    /\ heap = FreshHeap
    /\ remaining = 0
    /\ out = <<>>
    /\ cobs = NoCobs
    /\ clast = NoCpuCall

Note(o, e) == [o EXCEPT !.log = Append(@, e)]

\* uxTaskGetNumberOfTasks
uxTaskGetNumberOfTasks == Cardinality(DOMAIN tasks)

\* the live handles in the scheduler's order
RECURSIVE SeqOfSet(_)
SeqOfSet(S) ==
    IF S = {} THEN <<>>
    ELSE LET m == CHOOSE x \in S : \A y \in S : x <= y
         IN <<m>> \o SeqOfSet(S \ {m})

\* uxTaskGetSystemState: the TaskStatus_t array it fills, empty when the
\* array is too small for the task table (then 0 is returned)
uxTaskGetSystemState(size, outgrown) ==
    IF outgrown \/ size < uxTaskGetNumberOfTasks
    THEN <<>>
    ELSE LET hs == SeqOfSet(DOMAIN tasks)
         IN [k \in 1 .. Len(hs) |->
                [xHandle |-> hs[k], pcTaskName |-> hs[k],
                 ulRunTimeCounter |-> tasks[hs[k]]]]

\* lines 178-183
CpuCall ==
    /\ spc = "idle"
    /\ \E ticks \in 0 .. MaxTicks, ok \in BOOLEAN :
          LET l == [NoLoc EXCEPT !.xTicksToWait = ticks,
                                 !.start_array_size =
                                     uxTaskGetNumberOfTasks + ARRAY_SIZE_OFFSET]
          IN IF ok
             THEN /\ loc' = [l EXCEPT !.start_array = "A"]
                  /\ heap' = [FreshHeap EXCEPT !.A.state = "live"]
                  /\ cobs' = Note([NoCobs EXCEPT !.mallocA = "ok"], "malloc_a")
                  /\ spc' = "capture_a"
             ELSE /\ loc' = [l EXCEPT !.ret = "ESP_ERR_NO_MEM"]
                  /\ heap' = FreshHeap
                  /\ cobs' = [NoCobs EXCEPT !.mallocA = "failed"]
                  /\ spc' = "exit"
    /\ out' = <<>>
    /\ clast' = NoCpuCall
    /\ UNCHANGED <<cores, tasks, runTime, envSteps, remaining, uvars>>

\* lines 185-189
CpuCaptureA ==
    /\ spc = "capture_a"
    /\ \E outgrown \in BOOLEAN :
          LET arr == uxTaskGetSystemState(loc.start_array_size, outgrown)
              l == [loc EXCEPT !.start_array_size = Len(arr),
                               !.start_run_time = runTime]
          IN IF Len(arr) = 0
             THEN /\ loc' = [loc EXCEPT !.start_array_size = 0,
                                        !.ret = "ESP_ERR_INVALID_SIZE"]
                  /\ heap' = heap
                  /\ cobs' = [cobs EXCEPT !.captureA = "zero"]
                  /\ spc' = "exit"
             ELSE /\ loc' = l
                  /\ heap' = [heap EXCEPT !.A.data = arr]
                  /\ cobs' = Note([cobs EXCEPT !.captureA = "ok",
                                               !.runA = runTime], "capture_a")
                  /\ spc' = "delay"
    /\ UNCHANGED <<cores, tasks, runTime, envSteps, remaining, out, clast, uvars>>

\* a delay that yields without waiting for the ticks
CpuDelay_NoWait ==
    /\ spc = "delay"
    /\ spc' = "blocked"
    /\ remaining' = 0
    /\ cobs' = Note(cobs, "delay")
    /\ UNCHANGED <<cores, tasks, runTime, envSteps, loc, heap, out, clast, uvars>>

\* line 191: vTaskDelay(xTicksToWait) blocks the caller
CpuDelay ==
    /\ spc = "delay"
    /\ spc' = "blocked"
    /\ remaining' = loc.xTicksToWait
    /\ cobs' = Note(cobs, "delay")
    /\ UNCHANGED <<cores, tasks, runTime, envSteps, loc, heap, out, clast, uvars>>

\* the tick interrupt while the caller is blocked
TickIsr ==
    /\ spc = "blocked"
    /\ remaining > 0
    /\ remaining' = remaining - 1
    /\ cobs' = [cobs EXCEPT !.slept = @ + 1]
    /\ UNCHANGED <<cores, tasks, runTime, envSteps, spc, loc, heap, out, clast, uvars>>

\* the scheduler resumes the caller once the delay has expired
CpuWake ==
    /\ spc = "blocked"
    /\ remaining = 0
    /\ spc' = "alloc_b"
    /\ cobs' = Note(cobs, "wake")
    /\ UNCHANGED <<cores, tasks, runTime, envSteps, loc, heap, remaining, out,
                   clast, uvars>>

\* lines 194-199
CpuAllocB ==
    /\ spc = "alloc_b"
    /\ \E ok \in BOOLEAN :
          LET l == [loc EXCEPT !.end_array_size =
                                   uxTaskGetNumberOfTasks + ARRAY_SIZE_OFFSET]
          IN IF ok
             THEN /\ loc' = [l EXCEPT !.end_array = "B"]
                  /\ heap' = [heap EXCEPT !.B.state = "live"]
                  /\ cobs' = Note([cobs EXCEPT !.mallocB = "ok"], "malloc_b")
                  /\ spc' = "capture_b"
             ELSE /\ loc' = [l EXCEPT !.ret = "ESP_ERR_NO_MEM"]
                  /\ heap' = heap
                  /\ cobs' = [cobs EXCEPT !.mallocB = "failed"]
                  /\ spc' = "exit"
    /\ UNCHANGED <<cores, tasks, runTime, envSteps, remaining, out, clast, uvars>>

\* lines 201-205
CpuCaptureB ==
    /\ spc = "capture_b"
    /\ \E outgrown \in BOOLEAN :
          LET arr == uxTaskGetSystemState(loc.end_array_size, outgrown)
              l == [loc EXCEPT !.end_array_size = Len(arr),
                               !.end_run_time = runTime]
          IN IF Len(arr) = 0
             THEN /\ loc' = [loc EXCEPT !.end_array_size = 0,
                                        !.ret = "ESP_ERR_INVALID_SIZE"]
                  /\ heap' = heap
                  /\ cobs' = [cobs EXCEPT !.captureB = "zero"]
                  /\ spc' = "exit"
             ELSE /\ loc' = l
                  /\ heap' = [heap EXCEPT !.B.data = arr]
                  /\ cobs' = Note([cobs EXCEPT !.captureB = "ok",
                                               !.runB = runTime], "capture_b")
                  /\ spc' = "elapsed"
    /\ UNCHANGED <<cores, tasks, runTime, envSteps, remaining, out, clast, uvars>>

\* the unmatched entries printed before the test of line 209
CpuElapsed_PrintsFirst ==
    /\ spc = "elapsed"
    /\ LET e == Sub32(loc.end_run_time, loc.start_run_time)
       IN /\ loc' = [loc EXCEPT !.total_elapsed_time = e,
                                !.ret = "ESP_ERR_INVALID_STATE"]
          /\ out' = [k \in DOMAIN heap.A.data |->
                        [kind |-> "Deleted", name |-> heap.A.data[k].pcTaskName,
                         run_time |-> Zero32, percentage |-> Zero32]]
          /\ spc' = "exit"
    /\ UNCHANGED <<cores, tasks, runTime, envSteps, heap, remaining, cobs,
                   clast, uvars>>

\* lines 208-212
CpuElapsed ==
    /\ spc = "elapsed"
    /\ LET e == Sub32(loc.end_run_time, loc.start_run_time)
       IN IF e = Zero32
          THEN /\ loc' = [loc EXCEPT !.total_elapsed_time = e,
                                     !.ret = "ESP_ERR_INVALID_STATE"]
               /\ spc' = "exit"
          ELSE /\ loc' = [loc EXCEPT !.total_elapsed_time = e]
               /\ spc' = "report"
    /\ UNCHANGED <<cores, tasks, runTime, envSteps, heap, remaining, out, cobs,
                   clast, uvars>>


\* the first index j with ea[j].xHandle = h, 0 when there is none
FirstMatch(h, ea) ==
    LET js == {j \in 1 .. Len(ea) : ea[j].xHandle = h}
    IN IF js = {} THEN 0 ELSE CHOOSE j \in js : \A k \in js : j <= k

\* the percentage of line 230; divZero is what a division by zero yields
Percentage(task_elapsed, total_elapsed, ncores, divZero) ==
    LET divisor == MulSmall32(total_elapsed, ncores)
    IN IF divisor = Zero32
       THEN divZero
       ELSE Div32(MulSmall32(task_elapsed, 100), divisor)

\* lines 216-233: [sa, ea, lines] after the matching loop from index i on
RECURSIVE MatchLoop(_, _, _, _, _, _, _)
MatchLoop(i, sa, ea, lines, total_elapsed, ncores, divZero) ==
    IF i > Len(sa)
    THEN [sa |-> sa, ea |-> ea, lines |-> lines]
    ELSE LET k == FirstMatch(sa[i].xHandle, ea)
         IN IF k = 0
            THEN MatchLoop(i + 1, sa, ea, lines, total_elapsed, ncores, divZero)
            ELSE LET te == Sub32(ea[k].ulRunTimeCounter, sa[i].ulRunTimeCounter)
                     line == [kind |-> "usage", name |-> sa[i].pcTaskName,
                              run_time |-> te,
                              percentage |->
                                  Percentage(te, total_elapsed, ncores, divZero)]
                 IN MatchLoop(i + 1,
                              [sa EXCEPT ![i].xHandle = NullHandle],
                              [ea EXCEPT ![k].xHandle = NullHandle],
                              Append(lines, line), total_elapsed, ncores, divZero)

\* every entry printed, matched or not
Unmatched_All(arr, kind) ==
    [k \in 1 .. Len(arr) |->
        [kind |-> kind, name |-> arr[k].pcTaskName,
         run_time |-> Zero32, percentage |-> Zero32]]

\* lines 236-245: one line for every entry whose handle is still set
Unmatched(arr, kind) ==
    LET keep(e) == e.xHandle # NullHandle
        tag(e) == [kind |-> kind, name |-> e.pcTaskName,
                   run_time |-> Zero32, percentage |-> Zero32]
        picked == SelectSeq(arr, keep)
    IN [k \in 1 .. Len(picked) |-> tag(picked[k])]

Header == [kind |-> "header", name |-> 0, run_time |-> Zero32,
           percentage |-> Zero32]

\* lines 214-246: everything printed by a call that got this far
ReportLines(sa, ea, total_elapsed, ncores, divZero) ==
    LET m == MatchLoop(1, sa, ea, <<Header>>, total_elapsed, ncores, divZero)
    IN m.lines \o Unmatched(m.sa, "Deleted") \o Unmatched(m.ea, "Created")

\* some entry of the first snapshot has a match in the second
SomeMatch(sa, ea) == \E i \in 1 .. Len(sa) : FirstMatch(sa[i].xHandle, ea) # 0

AllOnes32 == U32(Half - 1, Half - 1)

\* lines 214-246.  A division by zero at line 230 traps on the cores that
\* raise an exception for it and yields all ones on the others.
CpuReport ==
    /\ spc = "report"
    /\ LET sa == heap.A.data
           ea == heap.B.data
           zero == /\ MulSmall32(loc.total_elapsed_time, cores) = Zero32
                   /\ SomeMatch(sa, ea)
       IN \/ /\ zero
             /\ spc' = "trapped"
             /\ UNCHANGED <<loc, out, heap>>
          \/ LET m == MatchLoop(1, sa, ea, <<Header>>, loc.total_elapsed_time,
                                cores, AllOnes32)
             IN /\ out' = ReportLines(sa, ea, loc.total_elapsed_time, cores,
                                      AllOnes32)
                /\ heap' = [heap EXCEPT !.A.data = m.sa, !.B.data = m.ea]
                /\ loc' = [loc EXCEPT !.ret = "ESP_OK"]
                /\ spc' = "exit"
    /\ UNCHANGED <<cores, tasks, runTime, envSteps, remaining, cobs, clast,
                   uvars>>

\* a release that does nothing
Free_Leak(h, p) == h

\* free(p): nothing for a null pointer
Free(h, p) ==
    IF p = NULL
    THEN h
    ELSE [h EXCEPT ![p].state = "freed", ![p].frees = @ + 1]

FreeNote(o, p, e) == IF p = NULL THEN o ELSE Note(o, e)

\* lines 248-251
CpuExit ==
    /\ spc = "exit"
    /\ heap' = Free(Free(heap, loc.start_array), loc.end_array)
    /\ clast' = [ret |-> loc.ret, ticks |-> loc.xTicksToWait, out |-> out,
                 obs |-> FreeNote(FreeNote(cobs, loc.start_array, "free_a"),
                                  loc.end_array, "free_b")]
    /\ spc' = "idle"
    /\ loc' = NoLoc
    /\ cobs' = NoCobs
    /\ out' = <<>>
    /\ UNCHANGED <<cores, tasks, runTime, envSteps, remaining, uvars>>

(* The scheduler *)

\* up to one task per core runs for one slice
TaskRun ==
    /\ envSteps < MaxEnvSteps
    /\ \E hs \in SUBSET (DOMAIN tasks), d \in DeltaSet :
          /\ hs # {}
          /\ Cardinality(hs) <= cores
          /\ tasks' = [h \in DOMAIN tasks |->
                          IF h \in hs THEN Add32(tasks[h], d) ELSE tasks[h]]
          /\ runTime' = Add32(runTime, d)
    /\ envSteps' = envSteps + 1
    /\ UNCHANGED <<cores, spc, loc, heap, remaining, out, cobs, clast, uvars>>

TaskCreate ==
    /\ envSteps < MaxEnvSteps
    /\ \E h \in Handles \ DOMAIN tasks :
          tasks' = [x \in DOMAIN tasks \cup {h} |->
                       IF x = h THEN Zero32 ELSE tasks[x]]
    /\ envSteps' = envSteps + 1
    /\ UNCHANGED <<cores, runTime, spc, loc, heap, remaining, out, cobs, clast,
                   uvars>>

TaskDelete ==
    /\ envSteps < MaxEnvSteps
    /\ \E h \in DOMAIN tasks \ {Caller} :
          tasks' = [x \in DOMAIN tasks \ {h} |-> tasks[x]]
    /\ envSteps' = envSteps + 1
    /\ UNCHANGED <<cores, runTime, spc, loc, heap, remaining, out, cobs, clast,
                   uvars>>

\* the UDID manager at rest
UdidQuiet ==
    /\ hwMac = <<170, 187, 204, 221, 238, 255>>
    /\ nvs = [devNs |-> FALSE, udid |-> NoItem, flash |-> NoItem,
              wifiNs |-> FALSE, wifi |-> NoWifi]
    /\ callers = {}
    /\ pc = [t \in AllTasks |-> "idle"]
    /\ frame = [t \in AllTasks |-> NoFrame]
    /\ obs = [t \in AllTasks |-> NoObs]
    /\ persisted = FALSE
    /\ last = NoCall
    /\ prev = NoPrev

InitCpu == UdidQuiet /\ CpuInit

NextCpu ==
    \/ CpuCall
    \/ CpuCaptureA
    \/ CpuDelay
    \/ TickIsr
    \/ CpuWake
    \/ CpuAllocB
    \/ CpuCaptureB
    \/ CpuElapsed
    \/ CpuReport
    \/ CpuExit
    \/ TaskRun
    \/ TaskCreate
    \/ TaskDelete

SpecCpu == InitCpu /\ [][NextCpu]_vars

----------------------------------------------------------------------------
(* Properties of the UDID manager *)

\* the value of one lowercase hex digit, -1 for any other character
HexVal(c) ==
    CASE c = "0" -> 0 [] c = "1" -> 1 [] c = "2" -> 2 [] c = "3" -> 3
      [] c = "4" -> 4 [] c = "5" -> 5 [] c = "6" -> 6 [] c = "7" -> 7
      [] c = "8" -> 8 [] c = "9" -> 9 [] c = "a" -> 10 [] c = "b" -> 11
      [] c = "c" -> 12 [] c = "d" -> 13 [] c = "e" -> 14 [] c = "f" -> 15
      [] OTHER -> -1

\* s is six groups of two lowercase hex digits separated by colons
IsToken(s) ==
    /\ Len(s) = 17
    /\ \A k \in 1 .. 17 : IF k % 3 = 0 THEN s[k] = ":" ELSE HexVal(s[k]) >= 0

\* the six bytes a token spells
TokenBytes(s) == [k \in 1 .. 6 |-> 16 * HexVal(s[3 * k - 2]) + HexVal(s[3 * k - 1])]

\* s is the token of the six bytes b
Spells(s, b) == IsToken(s) /\ TokenBytes(s) = b

\* the bytes the unprovisioned path derives from draw r
RandomBytes(r) ==
    <<r.lo % 256, (r.lo \div 256) % 256, r.hi % 256, hwMac[4], hwMac[5], hwMac[6]>>

\* the call that just returned was GetMacAddress
Got == last.op = "get"

\* WriteUdidToNvs got past nvs_set_str
SetDone(w) == w \in {"ok", "commit_lost", "commit_kept"}

\* C1: every GetMacAddress call returns a non-empty string, whatever the
\* store holds and whichever store operations fail.
C1_ReturnsNonEmpty == Got => Len(last.ret) > 0

\* C2: once a UDID has been written and committed, no later step changes
\* the stored UDID.
C2_FirstPersistWins ==
    [][persisted => (nvs'.udid = nvs.udid /\ nvs'.flash = nvs.flash)]_vars

\* number of persists of a call whose WriteUdidToNvs ended as w
Persists(w) == IF SetDone(w) THEN 1 ELSE 0

\* two GetMacAddress calls in succession, neither meeting a store failure
TwoCleanCalls == Got /\ last.obs.faults = 0 /\ prev.op = "get"

\* C3 as claimed: two successive calls on a store that never fails return
\* the same string and exactly one persist occurs across both, whatever the
\* store held at first.
C3_ExactlyOnePersist ==
    TwoCleanCalls =>
        /\ last.ret = prev.ret
        /\ Persists(prev.write) + Persists(last.obs.write) = 1

\* C3 as amended: two successive calls on a store that never fails return
\* the same string, and the persists across both number one when the store
\* held no identifier before the first call and none when it held one.
C3_Idempotent ==
    TwoCleanCalls =>
        /\ last.ret = prev.ret
        /\ Persists(prev.write) + Persists(last.obs.write)
              = IF prev.stored THEN 0 ELSE 1

C3_Witness ==
    /\ TwoCleanCalls
    /\ ~prev.stored
    /\ prev.write = "ok"
    /\ last.obs.write = "none"
    /\ IsToken(last.ret)

\* the store held a non-empty UDID when the call began and the first read
\* met no failure
FastCase ==
    /\ Got
    /\ last.obs.read1ok
    /\ last.obs.preUdid.present
    /\ CStr(last.obs.preUdid.raw) # <<>>

\* C4: on the fast path GetMacAddress returns the stored value and does
\* nothing else: no write, no hardware-address read, no random draw, and the
\* store is as it was.
C4_FastPath ==
    FastCase =>
        /\ last.ret = CStr(last.obs.preUdid.raw)
        /\ last.obs.write = "none"
        /\ last.obs.macReads = 0
        /\ last.obs.draws = <<>>
        /\ ~last.obs.touched
        /\ nvs.udid = last.obs.preUdid

C4_Witness == FastCase /\ last.ret = <<"i", "d", "7">>

\* no identifier stored, some credential slot non-empty, no store failure
ProvisionedCase ==
    /\ Got
    /\ ~last.obs.preUdid.present
    /\ last.obs.provisioned
    /\ last.obs.faults = 0

\* C5: on the provisioned path GetMacAddress persists and returns the
\* lowercase colon-separated hex token of the whole hardware address and
\* draws no random value.
C5_ProvisionedPath ==
    ProvisionedCase =>
        /\ Spells(last.ret, hwMac)
        /\ nvs.udid = [present |-> TRUE, raw |-> last.ret \o <<NUL>>]
        /\ nvs.flash = nvs.udid
        /\ last.obs.draws = <<>>

C5_Witness ==
    /\ ProvisionedCase
    /\ hwMac = <<170, 187, 204, 221, 238, 255>>
    /\ last.ret = <<"a", "a", ":", "b", "b", ":", "c", "c", ":",
                    "d", "d", ":", "e", "e", ":", "f", "f">>

\* no identifier stored, no credential slot non-empty, no store failure
UnprovisionedCase ==
    /\ Got
    /\ ~last.obs.preUdid.present
    /\ ~last.obs.provisioned
    /\ last.obs.faults = 0

\* C6: on the unprovisioned path the persisted and returned identifier
\* spells the three low-order bytes of one random draw followed by the last
\* three bytes of the hardware address.
C6_UnprovisionedPath ==
    UnprovisionedCase =>
        /\ Len(last.obs.draws) = 1
        /\ Spells(last.ret, RandomBytes(last.obs.draws[1]))
        /\ nvs.udid = [present |-> TRUE, raw |-> last.ret \o <<NUL>>]

\* the call began with no identifier stored, called WriteUdidToNvs, and the
\* write failed before nvs_set_str took effect or the read at line 157 failed
FallbackCase ==
    /\ Got
    /\ ~last.obs.preUdid.present
    /\ last.obs.write # "none"
    /\ (last.obs.write \in {"open", "set"} \/ last.obs.reread = "failed")

\* C7: when the persist or the re-read fails, the call returns the token of
\* the hardware address and leaves no identifier in the store.
C7_FallbackLeavesNothing ==
    FallbackCase =>
        /\ Spells(last.ret, hwMac)
        /\ nvs.udid = last.obs.preUdid

\* the call derived an identifier, nvs_set_str took it, and the call
\* returned what the read at line 157 delivered
DerivedCase ==
    /\ Got
    /\ SetDone(last.obs.write)
    /\ last.obs.reread = "ok"

\* C8: the value a call derives, writes and re-reads is committed when the
\* call returns, so that a power cycle keeps it.
C8_ReturnedIsDurable ==
    DerivedCase => nvs.flash = [present |-> TRUE, raw |-> last.ret \o <<NUL>>]

----------------------------------------------------------------------------
(* Properties of the CPU usage sampler *)

\* a sampler call has just returned
Sampled == clast.ret # "none"

\* how often event e occurs in log l
Count(l, e) == Cardinality({i \in DOMAIN l : l[i] = e})

\* the events of a call up to its exit, in the order the claim gives
Stages == <<"malloc_a", "capture_a", "delay", "wake", "malloc_b", "capture_b">>

\* the events of the call before it released its buffers
BeforeExit(l) ==
    LET isStage(e) == e \notin {"free_a", "free_b"}
    IN SelectSeq(l, isStage)

\* the result the claim gives for what the call met
Expected(o) ==
    IF o.mallocA = "failed" THEN "ESP_ERR_NO_MEM"
    ELSE IF o.captureA = "zero" THEN "ESP_ERR_INVALID_SIZE"
    ELSE IF o.mallocB = "failed" THEN "ESP_ERR_NO_MEM"
    ELSE IF o.captureB = "zero" THEN "ESP_ERR_INVALID_SIZE"
    ELSE IF o.runB = o.runA THEN "ESP_ERR_INVALID_STATE"
    ELSE "ESP_OK"

\* C9: the call returns OutOfMemory when an allocation fails, InvalidSize
\* when a capture returns zero, InvalidState when the run-time counter is
\* the same in both snapshots and success in every other case; the checks
\* come in the order A alloc, A capture, B alloc, B capture, elapsed, and the
\* first one that fails ends the call.  A call that passed all five checks
\* goes on to return: it does not end in a trap.
C9_ResultCodes ==
    /\ spc # "trapped"
    /\ Sampled =>
          LET o == clast.obs
              l == BeforeExit(o.log)
          IN /\ clast.ret = Expected(o)
             /\ l = SubSeq(Stages, 1, Len(l))
             /\ o.mallocA = "failed" => Len(l) = 0
             /\ o.captureA = "zero" => Len(l) = 1
             /\ o.mallocB = "failed" => Len(l) = 4
             /\ o.captureB = "zero" => Len(l) = 5
             /\ clast.ret \in {"ESP_OK", "ESP_ERR_INVALID_STATE"} => Len(l) = 6

\* the caller was blocked once, for all the ticks it asked for, after
\* snapshot A was captured and before snapshot B was
SleptOnceBetween(c) ==
    LET l == c.obs.log
    IN /\ Count(l, "delay") = 1
       /\ c.obs.slept = c.ticks
       /\ \E i \in DOMAIN l :
             /\ l[i] = "delay"
             /\ \E j \in 1 .. (i - 1) : l[j] = "capture_a"
             /\ \A j \in DOMAIN l :
                   l[j] \in {"malloc_b", "capture_b"} => j > i

\* C10 as claimed: every call suspends the caller for the full requested
\* duration exactly once, between the two captures, whatever it returns.
C10_AlwaysSleeps == Sampled => SleptOnceBetween(clast)

\* C10 as amended: a call that captured snapshot A suspends the caller for
\* the full requested duration exactly once, after that capture and before
\* snapshot B, whatever it returns; a call that failed in snapshot A returns
\* without suspending.
C10_SleepsAfterSnapshotA ==
    Sampled =>
        IF clast.obs.captureA = "ok"
        THEN SleptOnceBetween(clast)
        ELSE Count(clast.obs.log, "delay") = 0 /\ clast.obs.slept = 0

C10_Witness ==
    /\ Sampled
    /\ clast.ret = "ESP_ERR_NO_MEM"
    /\ clast.obs.mallocB = "failed"
    /\ clast.ticks = MaxTicks
    /\ clast.obs.slept = MaxTicks

----------------------------------------------------------------------------
(* Properties of the report *)

\* a sampler call has just returned success
Reported == Sampled /\ clast.ret = "ESP_OK"

\* the tasks a snapshot buffer lists; a task's name stands for its handle
Listed(buf) == {buf.data[i].pcTaskName : i \in DOMAIN buf.data}

\* how many lines of kind k the report has for task h
Lines(k, h) ==
    Cardinality({i \in DOMAIN clast.out :
                    clast.out[i].kind = k /\ clast.out[i].name = h})

\* the report has one line of kind k for task h and no other line for it
OnlyLine(k, h) ==
    \A k2 \in {"usage", "Deleted", "Created"} :
        Lines(k2, h) = IF k2 = k THEN 1 ELSE 0

\* C11: on success the records partition the tasks of the two snapshots:
\* one percentage record for every handle in both, one Deleted record for
\* every handle only in A, one Created record for every handle only in B,
\* and no other record.
C11_RecordsPartition ==
    Reported =>
        LET a == Listed(heap.A)
            b == Listed(heap.B)
        IN /\ \A h \in a \cap b : OnlyLine("usage", h)
           /\ \A h \in a \ b : OnlyLine("Deleted", h)
           /\ \A h \in b \ a : OnlyLine("Created", h)
           /\ Len(clast.out) = 1 + Cardinality(a \cup b)

\* the caller matched in both snapshots, another task deleted in between
C11_Witness ==
    /\ Reported
    /\ Lines("usage", Caller) = 1
    /\ \E h \in Handles : OnlyLine("Deleted", h)
    /\ Len(clast.out) = 3

----------------------------------------------------------------------------
(* Natural numbers beyond 32 bits, as ten base-256 digits, least first *)

NatDigits == 1 .. 10

\* the natural number a uint32_t denotes
NatOf(a) ==
    [k \in NatDigits |->
        CASE k = 1 -> a.lo % 256
          [] k = 2 -> a.lo \div 256
          [] k = 3 -> a.hi % 256
          [] k = 4 -> a.hi \div 256
          [] OTHER -> 0]

\* the sum of f[i] * g[k + 1 - i] for i in 1 .. n
RECURSIVE DigitSum(_, _, _, _)
DigitSum(f, g, k, n) ==
    IF n = 0 THEN 0 ELSE f[n] * g[k + 1 - n] + DigitSum(f, g, k, n - 1)

\* carries propagated through the digit values raw, from digit k on
RECURSIVE Propagate(_, _, _)
Propagate(raw, k, c) ==
    IF k \notin NatDigits
    THEN raw
    ELSE LET v == raw[k] + c
         IN Propagate([raw EXCEPT ![k] = v % 256], k + 1, v \div 256)

NatAdd(a, b) == Propagate([k \in NatDigits |-> a[k] + b[k]], 1, 0)

NatMul(a, b) == Propagate([k \in NatDigits |-> DigitSum(a, b, k, k)], 1, 0)

NatLeq(a, b) ==
    \/ a = b
    \/ LET k == CHOOSE i \in NatDigits :
                    a[i] # b[i] /\ \A j \in NatDigits : j > i => a[j] = b[j]
       IN a[k] < b[k]

\* q is the truncating quotient of n by d, d # 0
IsQuotient(q, n, d) ==
    /\ NatLeq(NatMul(q, d), n)
    /\ ~NatLeq(NatAdd(NatMul(q, d), d), n)

----------------------------------------------------------------------------
(* Properties of the reported numbers *)

\* the run-time counter snapshot buffer buf holds for task h
CounterOf(buf, h) ==
    LET i == CHOOSE j \in DOMAIN buf.data : buf.data[j].pcTaskName = h
    IN buf.data[i].ulRunTimeCounter

\* C12: every percentage record carries the run time
\* (counter_B - counter_A) mod 2^32 and the truncating quotient of
\* task_elapsed * 100 by elapsed * core_count, the products taken without
\* wraparound, where elapsed = (runtime_B - runtime_A) mod 2^32.
C12_ExactPercentage ==
    Reported =>
        \A i \in DOMAIN clast.out :
            LET line == clast.out[i]
                te == Sub32(CounterOf(heap.B, line.name),
                            CounterOf(heap.A, line.name))
                elapsed == Sub32(clast.obs.runB, clast.obs.runA)
            IN line.kind = "usage" =>
                  /\ line.run_time = te
                  /\ IsQuotient(NatOf(line.percentage),
                                NatMul(NatOf(te), NatOf(U32(0, 100))),
                                NatMul(NatOf(elapsed), NatOf(U32(0, cores))))

----------------------------------------------------------------------------
(* Properties of the error exits and of the buffers *)

\* the percentage, Deleted and Created lines among lines o
Records(o) ==
    {i \in DOMAIN o : o[i].kind \in {"usage", "Deleted", "Created"}}

\* C16: a call that returns an error has emitted no record; records are
\* emitted only after both snapshots were captured and the elapsed time was
\* found non-zero.
C16_NoRecordOnError ==
    /\ Sampled /\ clast.ret # "ESP_OK" => Records(clast.out) = {}
    /\ Records(out) # {} =>
          /\ cobs.captureA = "ok"
          /\ cobs.captureB = "ok"
          /\ loc.total_elapsed_time # Zero32

\* a call that got as far as the elapsed test and failed there
C16_Witness ==
    /\ Sampled
    /\ clast.ret = "ESP_ERR_INVALID_STATE"
    /\ clast.obs.captureB = "ok"
    /\ clast.obs.runA = clast.obs.runB
    /\ clast.out = <<>>

\* buffer b was allocated by the call whose effects are o
Allocated(o, b) == IF b = "A" THEN o.mallocA = "ok" ELSE o.mallocB = "ok"

\* C17: when the call returns, every snapshot buffer it allocated has been
\* released exactly once and no other buffer has been released; while the
\* call is in progress no buffer has been released.
C17_ReleasedOnce ==
    /\ Sampled =>
          \A b \in {"A", "B"} :
              IF Allocated(clast.obs, b)
              THEN heap[b].state = "freed" /\ heap[b].frees = 1
              ELSE heap[b].state = "unallocated" /\ heap[b].frees = 0
    /\ spc \notin {"idle", "trapped"} =>
          \A b \in {"A", "B"} :
              /\ heap[b].frees = 0
              /\ heap[b].state = IF Allocated(cobs, b) THEN "live"
                                 ELSE "unallocated"

\* the exit taken when the second allocation fails
C17_Witness ==
    /\ Sampled
    /\ clast.ret = "ESP_ERR_NO_MEM"
    /\ clast.obs.mallocA = "ok"
    /\ clast.obs.mallocB = "failed"
    /\ heap.A.state = "freed" /\ heap.A.frees = 1
    /\ heap.B.state = "unallocated"

\* C18: the division of line 230 never has a zero divisor: a call that
\* passed the elapsed test has (elapsed * core_count) mod 2^32 non-zero.
C18_DivisorNonZero ==
    spc = "report" => MulSmall32(loc.total_elapsed_time, cores) # Zero32

----------------------------------------------------------------------------
(* Properties of the provisioning marker *)

\* C14: on a device with no non-empty credential slot, no GetMacAddress
\* call returns the token of the real hardware address or persists it,
\* whichever store operations fail and whatever the random draw.
C14_NoMacLeak ==
    (Got /\ ~last.obs.provisioned) =>
        /\ last.ret # FormatMac(hwMac)
        /\ SetDone(last.obs.write) => last.obs.wrote # FormatMac(hwMac)

\* task t has just evaluated HasWifiConfigInNvs at line 126
Checked(t) == pc[t] \in {"init_write_mac", "init_random"}

\* C15: HasWifiConfigInNvs is true only if the credential namespace opens
\* and some slot holds a non-empty value, and is true whenever that is so
\* and no store operation fails; an empty string in a slot, a missing slot
\* and a namespace that does not open count as not provisioned.
C15_MarkerIffNonEmptySlot ==
    \A t \in AllTasks :
        Checked(t) =>
            /\ obs[t].prov = "mac" => Provisioned(nvs)
            /\ (Provisioned(nvs) /\ obs[t].faults = 0) => obs[t].prov = "mac"

----------------------------------------------------------------------------
(* Properties of concurrent first calls *)

\* the step is task t's call of WriteUdidToNvs
Wrote(t) ==
    /\ pc[t] \in {"init_write_mac", "init_write_rand"}
    /\ pc'[t] # pc[t]

\* C13: among concurrent first calls several may derive and persist; the
\* stored identifier changes only by such a write and is then the value of
\* that write, so that it ends as the value of the write ordered last; a
\* call started when all have finished returns the stored identifier and
\* leaves it as it is.
C13_LastWriteWins ==
    [][/\ \A t \in AllTasks : Wrote(t) => nvs'.udid = StrItem(obs'[t].wrote)
       /\ nvs'.udid # nvs.udid => \E t \in AllTasks : Wrote(t)
       /\ ((\A t \in AllTasks : pc[t] = "idle") /\ nvs.udid.present
              /\ last'.op = "get") =>
             (last'.ret = CStr(nvs.udid.raw) /\ nvs'.udid = nvs.udid)]_vars

\* both tasks have derived and persisted, with different values, and the
\* store holds the value written by the second
C13_Witness ==
    /\ pc[1] = "init_reread_rand"
    /\ pc[2] = "init_reread_rand"
    /\ obs[1].wrote # obs[2].wrote
    /\ nvs.udid = StrItem(obs[2].wrote)
    /\ nvs.udid # StrItem(obs[1].wrote)

\* C19: on a provisioned device whose store does not fail, every concurrent
\* first caller returns the token of the hardware address, and the stored
\* identifier is that token once any of them has written.
C19_ProvisionedAgree ==
    Provisioned(nvs) =>
        /\ Got => last.ret = FormatMac(hwMac)
        /\ nvs.udid.present => nvs.udid = StrItem(FormatMac(hwMac))

\* one caller has returned while the other, which has written too, is
\* still inside its call
C19_Witness ==
    /\ Provisioned(nvs)
    /\ Got
    /\ last.ret = FormatMac(hwMac)
    /\ last.obs.write = "ok"
    /\ \E t \in AllTasks : pc[t] = "get_reread" /\ obs[t].write = "ok"

====
